---------------------------- MODULE Spec2Model ----------------------------
(***************************************************************************)
(* stargate-tools, main.ts: the yield-farming report of one wallet.        *)
(*                                                                         *)
(* The script is one top-level async flow.  The model follows it await by  *)
(* await: the two block reads and the block-count cascade, the scalar      *)
(* LPStaking reads, the Promise.all fan-out over pool ordinals, the        *)
(* filter to active pools, the second Promise.all fan-out that reads and   *)
(* derives each active pool's metrics, the two price queries with the      *)
(* stablecoin override, and the synchronous report loop.                   *)
(*                                                                         *)
(* JavaScript numbers are modelled as exact non-negative fractions         *)
(* [n, d] extended with Infinity (n > 0, d = 0) and NaN (n = 0, d = 0),    *)
(* so that x / 0 and 0 / 0 behave as they do in IEEE arithmetic; the       *)
(* rounding of binary floating point is not modelled.  bigint values are   *)
(* integers with floor division.  Amounts of STG are held as multiples of  *)
(* 10^StgUnitExp wei, because 10^18 does not fit a 32-bit integer.         *)
(***************************************************************************)
EXTENDS Integers, Sequences, FiniteSets

VARIABLES
    pc,               \* position of the top-level flow
    chain,            \* args.chain
    verbose,          \* args.verbose
    latestTs,         \* latestBlock.timestamp
    olderTs,          \* block.timestamp (100 blocks earlier)
    blocks,           \* avgBlockTime and blocksPerHour .. blocksPerYear
    stgPerBlock,      \* lpStaking.stargatePerBlock(), in StgUnit wei
    poolLength,       \* lpStaking.poolLength()
    totalAllocPoint,  \* lpStaking.totalAllocPoint()
    tasks,            \* the async closures of the first Promise.all, by pid
    order,            \* the order in which those closures completed
    outOfOrder,       \* history: a closure completed before one of a lower pid
    activePools,      \* the filtered and mapped pools
    poolTasks,        \* the async closures of the second Promise.all
    queried,          \* contract_addresses sent to simpleTokenPrice
    tokenPrices,      \* the address-keyed price map
    output,           \* what the report section has printed
    readFailed,       \* history: some chain or price-feed call rejected
    calc              \* metrics derived so far (metrics-only specification)

vars == <<pc, chain, verbose, latestTs, olderTs, blocks, stgPerBlock,
          poolLength, totalAllocPoint, tasks, order, outOfOrder, activePools,
          poolTasks, queried, tokenPrices, output, readFailed, calc>>

---------------------------------------------------------------------------
(* Bounds of the model *)

MaxPools == 2

MaxCalc == 3

---------------------------------------------------------------------------
(* Program constants *)

STG_DECIMALS == 18

BlockSpan == 100

SecondsPerHour == 3600

Chains == {"mainnet", "bsc", "polygon"}

CONTRACT_ADDRESSES_MAP ==
    [c \in Chains |-> [LP_STAKING |-> <<c, "LP_STAKING">>,
                       USDC |-> <<c, "USDC">>,
                       USDT |-> <<c, "USDT">>]]

\* The STG token address returned by lpStaking.stargate(), and viem's zeroAddress.
StargateToken == <<"any", "STG">>
zeroAddress == <<"any", "0x0">>
\* An underlying token that is not a stablecoin of any chain.
OtherToken == <<"any", "TOKA">>

---------------------------------------------------------------------------
(* JavaScript numbers as extended fractions *)

RECURSIVE GCD(_, _)
GCD(a, b) == IF b = 0 THEN a ELSE GCD(b, a % b)

RECURSIVE Pow10(_)
Pow10(k) == IF k = 0 THEN 1 ELSE 10 * Pow10(k - 1)

Infinity == [n |-> 1, d |-> 0]
NaN == [n |-> 0, d |-> 0]
\* A property that is absent from an object: ToNumber(undefined) is NaN.
Undefined == [n |-> -1, d |-> 0]

Rat(n, d) ==
    IF d = 0 THEN (IF n = 0 THEN NaN ELSE Infinity)
    ELSE IF n = 0 THEN [n |-> 0, d |-> 1]
    ELSE [n |-> n \div GCD(n, d), d |-> d \div GCD(n, d)]

Num(k) == [n |-> k, d |-> 1]

ToNumber(x) == IF x = Undefined THEN NaN ELSE x

IsFiniteNum(x) == x.d # 0

\* a * b, reduced crosswise before multiplying
Mul(x, y) ==
    LET a == ToNumber(x)
        b == ToNumber(y)
    IN  IF a.d = 0 \/ b.d = 0 THEN Rat(a.n * b.n, 0)
        ELSE LET g1 == IF a.n = 0 THEN b.d ELSE GCD(a.n, b.d)
                 g2 == IF b.n = 0 THEN a.d ELSE GCD(b.n, a.d)
             IN  Rat((a.n \div g1) * (b.n \div g2), (a.d \div g2) * (b.d \div g1))

\* a / b
Div(x, y) ==
    LET b == ToNumber(y)
    IN  Mul(x, [n |-> b.d, d |-> b.n])

\* bigint division: truncates, and throws a RangeError on a zero divisor
BigDiv(a, b) == a \div b

\* viem formatUnits followed by parseFloat: value / 10^decimals
FormatUnits(value, decimals) == Rat(value, Pow10(decimals))

\* STG amounts are multiples of StgUnit = 10^StgUnitExp wei
StgUnitExp == STG_DECIMALS - 1

FormatStg(value) == Rat(value, Pow10(STG_DECIMALS - StgUnitExp))

---------------------------------------------------------------------------
(* Block time and block counts, main.ts 135-147 *)

AvgBlockTime(latest, older) == BigDiv(latest - older, BlockSpan)

BlockCountsBug(avg) ==
    LET h == BigDiv(SecondsPerHour, avg)
    IN  [avg |-> avg, hour |-> h, day |-> h * 24, week |-> h * 24 * 7,
         month |-> h * 24 * 7 * 4, year |-> h * 24 * 365]

BlockCounts(avg) ==
    LET blocksPerHour == BigDiv(SecondsPerHour, avg)
        blocksPerDay == blocksPerHour * 24
        blocksPerWeek == blocksPerDay * 7
        blocksPerMonth == blocksPerWeek * 4
        blocksPerYear == blocksPerMonth * 12
    IN  [avg |-> avg, hour |-> blocksPerHour, day |-> blocksPerDay,
         week |-> blocksPerWeek, month |-> blocksPerMonth,
         year |-> blocksPerYear]

NoBlocks == [avg |-> 0, hour |-> 0, day |-> 0, week |-> 0, month |-> 0,
             year |-> 0]

---------------------------------------------------------------------------
(* Per-pool metrics, main.ts 213-236 *)

RewardPerBlockBug(stg, allocPoint, total) ==
    Mul(FormatStg(stg), Div(Num(total), Num(allocPoint)))

RewardPerBlock(stg, allocPoint, total) ==
    Mul(FormatStg(stg), Div(Num(allocPoint), Num(total)))

Projection(rewardPerBlock, blockCount) == Mul(rewardPerBlock, Num(blockCount))

StakedTokens(lpSupply, decimals) == Num(BigDiv(lpSupply, Pow10(decimals)))

WeeklyAPY(rewardPerWeek, stakedTokens) ==
    Div(Mul(rewardPerWeek, Num(100)), stakedTokens)

UserStakedPct(userStaked, lpSupply) ==
    Div(Mul(Num(userStaked), Num(100)), Num(lpSupply))

UserReward(reward, userStakedPct) == Div(Mul(reward, userStakedPct), Num(100))

PoolMetrics(stg, total, blk, allocPoint, userStaked, lpSupply, decimals) ==
    LET rewardPerBlock == RewardPerBlock(stg, allocPoint, total)
        rewardPerDay == Projection(rewardPerBlock, blk.day)
        rewardPerWeek == Projection(rewardPerBlock, blk.week)
        rewardPerMonth == Projection(rewardPerBlock, blk.month)
        rewardPerYear == Projection(rewardPerBlock, blk.year)
        stakedTokens == StakedTokens(lpSupply, decimals)
        weeklyAPY == WeeklyAPY(rewardPerWeek, stakedTokens)
        userStakedPct == UserStakedPct(userStaked, lpSupply)
    IN  [rewardPerBlock |-> rewardPerBlock,
         rewardPerDay |-> rewardPerDay,
         rewardPerWeek |-> rewardPerWeek,
         rewardPerMonth |-> rewardPerMonth,
         rewardPerYear |-> rewardPerYear,
         stakedTokens |-> stakedTokens,
         dailyAPY |-> Div(weeklyAPY, Num(7)),
         weeklyAPY |-> weeklyAPY,
         monthlyAPY |-> Mul(weeklyAPY, Num(4)),
         yearlyAPY |-> Mul(weeklyAPY, Num(52)),
         userStakedPct |-> userStakedPct,
         userDailyReward |-> UserReward(rewardPerDay, userStakedPct),
         userWeeklyReward |-> UserReward(rewardPerWeek, userStakedPct),
         userMonthlyReward |-> UserReward(rewardPerMonth, userStakedPct),
         userYearlyReward |-> UserReward(rewardPerYear, userStakedPct)]

NoMetrics == PoolMetrics(0, 1, NoBlocks, 0, 0, 1, 0)

---------------------------------------------------------------------------
(* Values the chain and the price feed may return *)

LatestSamples == {1762250000}

\* newer - older, for the two blocks read by the full run
DiffSamples == {0, 1200}

StgPerBlockSamples == {100}

TotalAllocSamples == {0, 600}

AllocPointSamples == {0, 100}

UserStakedSamples == {0, 5}

TokenSamples(c) ==
    {CONTRACT_ADDRESSES_MAP[c].USDC, CONTRACT_ADDRESSES_MAP[c].USDT, OtherToken}

DecimalsSamples == {1}

LpSupplySamples == {0, 15}

PendingStgSamples == {7}

FeedPrice(a) == IF a = OtherToken THEN Rat(5, 2) ELSE Rat(99, 100)

IdPriceSamples == {Rat(1, 2), Undefined}

---------------------------------------------------------------------------
(* Promise.all, main.ts 172-180 and 202-267 *)

Settled(ts) == \A i \in 1..Len(ts) : ts[i].st \in {"fulfilled", "rejected"}

PromiseAllSettled(ts) == IF Settled(ts) THEN "fulfilled" ELSE "pending"

\* rejects with the first rejection, fulfils when every promise has
PromiseAll(ts) ==
    IF \E i \in 1..Len(ts) : ts[i].st = "rejected" THEN "rejected"
    ELSE IF \A i \in 1..Len(ts) : ts[i].st = "fulfilled" THEN "fulfilled"
    ELSE "pending"

PromiseAllByCompletion(ts, ord) ==
    [k \in 1..Len(ts) |-> IF k <= Len(ord) THEN ts[ord[k]] ELSE ts[k]]

\* the results of Promise.all are in the order of the promises passed
PromiseAllResults(ts, ord) == [k \in 1..Len(ts) |-> ts[k]]

\* the filter callback of main.ts 181-186
IsActive(p) == p.allocPoint > 0 /\ p.userStaked > 0

\* pools.filter(...).map(...), main.ts 181-200
ActivePools(pools) ==
    LET kept == SelectSeq(pools, IsActive)
    IN  [k \in 1..Len(kept) |->
            [pid |-> kept[k].pid, allocPoint |-> kept[k].allocPoint,
             userStaked |-> kept[k].userStaked]]

NewTask(pid) ==
    [pid |-> pid, st |-> "poolInfo", allocPoint |-> 0, userStaked |-> 0]

NewPoolTask ==
    [st |-> "name", token |-> zeroAddress, decimals |-> 0, lpSupply |-> 0,
     pendingStg |-> 0, computed |-> FALSE, m |-> NoMetrics]

---------------------------------------------------------------------------
(* Prices, main.ts 273-334 *)

EmptyPrices == [a \in {} |-> [usd |-> Undefined, ticker |-> "undefined"]]

\* obj[key] = value
SetKey(obj, key, value) ==
    [a \in DOMAIN obj \cup {key} |-> IF a = key THEN value ELSE obj[a]]

StableCoins(c) ==
    <<CONTRACT_ADDRESSES_MAP[c].USDC, CONTRACT_ADDRESSES_MAP[c].USDT>>

InSeq(x, s) == \E i \in 1..Len(s) : s[i] = x

\* tokens.filter((token) => !stableCoins.includes(token)), main.ts 279-281
FilteredTokens(c, tokens) ==
    LET NotStable(t) == ~InSeq(t, StableCoins(c))
    IN  SelectSeq(tokens, NotStable)

WithStableCoinsIfAbsent(c, prices) ==
    LET one(t) == [usd |-> Rat(1, 1), ticker |-> t]
        usdc == CONTRACT_ADDRESSES_MAP[c].USDC
        usdt == CONTRACT_ADDRESSES_MAP[c].USDT
        p1 == IF usdc \in DOMAIN prices THEN prices
              ELSE SetKey(prices, usdc, one("USDC"))
    IN  IF usdt \in DOMAIN p1 THEN p1 ELSE SetKey(p1, usdt, one("USDT"))

\* main.ts 295-302
WithStableCoins(c, prices) ==
    SetKey(SetKey(prices, CONTRACT_ADDRESSES_MAP[c].USDC,
                  [usd |-> Rat(1, 1), ticker |-> "USDC"]),
           CONTRACT_ADDRESSES_MAP[c].USDT,
           [usd |-> Rat(1, 1), ticker |-> "USDT"])

NativeTicker(c) ==
    CASE c = "mainnet" -> "ETH"
      [] c = "bsc" -> "BNB"
      [] c = "polygon" -> "MATIC"
      [] OTHER -> "ETH"

\* main.ts 327-334
WithIdPrices(c, prices, stgUsd, nativeUsd) ==
    SetKey(SetKey(prices, StargateToken, [usd |-> stgUsd, ticker |-> "STG"]),
           zeroAddress, [usd |-> nativeUsd, ticker |-> NativeTicker(c)])

---------------------------------------------------------------------------
(* The report, main.ts 337-445 *)

TokenFields(v) ==
    {"lpToken", "underlyingToken", "userStaked", "pendingStg",
     "userDailyReward", "userWeeklyReward", "userMonthlyReward",
     "userYearlyReward"}
    \cup (IF v THEN {"staked", "rewardPerBlock", "rewardPerDay",
                     "rewardPerWeek", "rewardPerMonth", "rewardPerYear",
                     "weeklyAPY", "monthlyAPY", "yearlyAPY", "userStakedPct"}
          ELSE {})

UsdFields(v) ==
    {"pendingStgValue", "userDailyYield", "userWeeklyYield",
     "userMonthlyYield", "userYearlyYield"}
    \cup (IF v THEN {"lpValue", "dailyYield", "weeklyYield", "monthlyYield",
                     "yearlyYield"}
          ELSE {})

NoUsd == [lpValue |-> NaN, pendingStgValue |-> NaN, userDailyYield |-> NaN,
          userWeeklyYield |-> NaN, userMonthlyYield |-> NaN,
          userYearlyYield |-> NaN]

\* main.ts 409-433
UsdValues(prices, pool) ==
    LET lpTokenPrice == prices[pool.token].usd
        stgPrice == prices[StargateToken].usd
    IN  [lpValue |-> Mul(lpTokenPrice, FormatUnits(pool.lpSupply, pool.decimals)),
         pendingStgValue |-> Mul(stgPrice, FormatStg(pool.pendingStg)),
         userDailyYield |-> Mul(pool.m.userDailyReward, stgPrice),
         userWeeklyYield |-> Mul(pool.m.userWeeklyReward, stgPrice),
         userMonthlyYield |-> Mul(pool.m.userMonthlyReward, stgPrice),
         userYearlyYield |-> Mul(pool.m.userYearlyReward, stgPrice)]

\* tokenPrices[pool.token].usd is a TypeError when the key is absent
PriceLookupThrows(prices, pool) == pool.token \notin DOMAIN prices

\* index of the first pool whose price lookup throws, 0 when none does
FirstThrow(prices, pools) ==
    IF \E k \in 1..Len(pools) : PriceLookupThrows(prices, pools[k])
    THEN CHOOSE k \in 1..Len(pools) :
            /\ PriceLookupThrows(prices, pools[k])
            /\ \A j \in 1..(k - 1) : ~PriceLookupThrows(prices, pools[j])
    ELSE 0

\* what activePoolsWithNames.forEach prints before it returns or throws
ReportPools(prices, act, pools, v) ==
    LET ft == FirstThrow(prices, pools)
        last == IF ft = 0 THEN Len(pools) ELSE ft
    IN  [k \in 1..last |->
            [index |-> k - 1,
             pid |-> act[k].pid,
             token |-> pools[k].token,
             fields |-> TokenFields(v) \cup (IF k = ft THEN {} ELSE UsdFields(v)),
             userStaked |-> FormatUnits(act[k].userStaked, pools[k].decimals),
             pendingStg |-> FormatStg(pools[k].pendingStg),
             m |-> pools[k].m,
             usd |-> IF k = ft THEN NoUsd ELSE UsdValues(prices, pools[k])]]

NoOutput == [table |-> EmptyPrices, started |-> FALSE, pools |-> <<>>]

---------------------------------------------------------------------------
(* The full run *)

Init ==
    /\ pc = "getBlock"
    /\ chain \in Chains
    /\ verbose \in BOOLEAN
    /\ latestTs = 0
    /\ olderTs = 0
    /\ blocks = NoBlocks
    /\ stgPerBlock = 0
    /\ poolLength = 0
    /\ totalAllocPoint = 0
    /\ tasks = <<>>
    /\ order = <<>>
    /\ outOfOrder = FALSE
    /\ activePools = <<>>
    /\ poolTasks = <<>>
    /\ queried = <<>>
    /\ tokenPrices = EmptyPrices
    /\ output = NoOutput
    /\ readFailed = FALSE
    /\ calc = <<>>

\* main.ts 135
GetBlock ==
    /\ pc = "getBlock"
    /\ \E ts \in LatestSamples : latestTs' = ts
    /\ pc' = "getOlderBlock"
    /\ UNCHANGED <<outOfOrder, chain, verbose, olderTs, blocks, stgPerBlock, poolLength,
                   totalAllocPoint, tasks, order, activePools, poolTasks,
                   queried, tokenPrices, output, readFailed, calc>>

\* main.ts 136-147; 3600n / 0n throws a RangeError
GetOlderBlock ==
    /\ pc = "getOlderBlock"
    /\ \E d \in DiffSamples :
         /\ olderTs' = latestTs - d
         /\ LET avgBlockTime == AvgBlockTime(latestTs, latestTs - d)
            IN  IF avgBlockTime = 0
                THEN pc' = "failed" /\ blocks' = blocks
                ELSE pc' = "ping" /\ blocks' = BlockCounts(avgBlockTime)
    /\ UNCHANGED <<outOfOrder, chain, verbose, latestTs, stgPerBlock, poolLength,
                   totalAllocPoint, tasks, order, activePools, poolTasks,
                   queried, tokenPrices, output, readFailed, calc>>

\* main.ts 153
Ping ==
    /\ pc = "ping"
    /\ pc' = "stargatePerBlock"
    /\ UNCHANGED <<outOfOrder, chain, verbose, latestTs, olderTs, blocks, stgPerBlock,
                   poolLength, totalAllocPoint, tasks, order, activePools,
                   poolTasks, queried, tokenPrices, output, readFailed, calc>>

\* main.ts 160
ReadStargatePerBlock ==
    /\ pc = "stargatePerBlock"
    /\ \E v \in StgPerBlockSamples : stgPerBlock' = v
    /\ pc' = "stargate"
    /\ UNCHANGED <<outOfOrder, chain, verbose, latestTs, olderTs, blocks, poolLength,
                   totalAllocPoint, tasks, order, activePools, poolTasks,
                   queried, tokenPrices, output, readFailed, calc>>

\* main.ts 169
ReadStargate ==
    /\ pc = "stargate"
    /\ pc' = "poolLength"
    /\ UNCHANGED <<outOfOrder, chain, verbose, latestTs, olderTs, blocks, stgPerBlock,
                   poolLength, totalAllocPoint, tasks, order, activePools,
                   poolTasks, queried, tokenPrices, output, readFailed, calc>>

\* main.ts 170
ReadPoolLength ==
    /\ pc = "poolLength"
    /\ \E n \in 0..MaxPools : poolLength' = n
    /\ pc' = "totalAllocPoint"
    /\ UNCHANGED <<outOfOrder, chain, verbose, latestTs, olderTs, blocks, stgPerBlock,
                   totalAllocPoint, tasks, order, activePools, poolTasks,
                   queried, tokenPrices, output, readFailed, calc>>

\* main.ts 171-173: the read, then one async closure started per pid
ReadTotalAllocPoint ==
    /\ pc = "totalAllocPoint"
    /\ \E t \in TotalAllocSamples : totalAllocPoint' = t
    /\ tasks' = [i \in 1..poolLength |-> NewTask(i - 1)]
    /\ pc' = "fetchPools"
    /\ UNCHANGED <<outOfOrder, chain, verbose, latestTs, olderTs, blocks, stgPerBlock,
                   poolLength, order, activePools, poolTasks, queried,
                   tokenPrices, output, readFailed, calc>>

MainReads ==
    {"getBlock", "getOlderBlock", "ping", "stargatePerBlock", "stargate",
     "poolLength", "totalAllocPoint", "simpleTokenPrice", "simplePrice"}

\* an awaited call of the top-level flow rejects: the module's promise
\* rejects and the process exits
ReadFails ==
    /\ pc \in MainReads
    /\ pc' = "failed"
    /\ readFailed' = TRUE
    /\ UNCHANGED <<outOfOrder, chain, verbose, latestTs, olderTs, blocks, stgPerBlock,
                   poolLength, totalAllocPoint, tasks, order, activePools,
                   poolTasks, queried, tokenPrices, output, calc>>

\* main.ts 176
PoolInfo(i) ==
    /\ pc = "fetchPools"
    /\ tasks[i].st = "poolInfo"
    /\ \E a \in AllocPointSamples :
         tasks' = [tasks EXCEPT ![i].st = "userInfo", ![i].allocPoint = a]
    /\ UNCHANGED <<outOfOrder, pc, chain, verbose, latestTs, olderTs, blocks, stgPerBlock,
                   poolLength, totalAllocPoint, order, activePools, poolTasks,
                   queried, tokenPrices, output, readFailed, calc>>

\* main.ts 177-178
UserInfo(i) ==
    /\ pc = "fetchPools"
    /\ tasks[i].st = "userInfo"
    /\ \E s \in UserStakedSamples :
         tasks' = [tasks EXCEPT ![i].st = "fulfilled", ![i].userStaked = s]
    /\ order' = Append(order, i)
    /\ outOfOrder' = (outOfOrder \/ \E j \in 1..(i - 1) : tasks[j].st # "fulfilled")
    /\ UNCHANGED <<pc, chain, verbose, latestTs, olderTs, blocks, stgPerBlock,
                   poolLength, totalAllocPoint, activePools, poolTasks,
                   queried, tokenPrices, output, readFailed, calc>>

\* a read of closure i rejects; Promise.all decides what the await does, and
\* an uncaught rejection ends the process with its closures
TaskFails(i) ==
    /\ pc = "fetchPools"
    /\ tasks[i].st \in {"poolInfo", "userInfo"}
    /\ LET settled == [tasks EXCEPT ![i].st = "rejected"]
       IN  IF PromiseAll(settled) = "rejected"
           THEN pc' = "failed" /\ tasks' = <<>> /\ order' = <<>>
           ELSE pc' = pc /\ tasks' = settled /\ order' = Append(order, i)
    /\ readFailed' = TRUE
    /\ UNCHANGED <<outOfOrder, chain, verbose, latestTs, olderTs, blocks, stgPerBlock,
                   poolLength, totalAllocPoint, activePools, poolTasks,
                   queried, tokenPrices, output, calc>>

\* main.ts 172-203: the await resumes, the pools are filtered and mapped,
\* and one async closure is started per active pool
JoinPools ==
    /\ pc = "fetchPools"
    /\ PromiseAll(tasks) = "fulfilled"
    /\ activePools' = ActivePools(PromiseAllResults(tasks, order))
    /\ poolTasks' = [k \in 1..Len(activePools') |-> NewPoolTask]
    /\ order' = <<>>
    /\ pc' = "fetchDetails"
    /\ UNCHANGED <<outOfOrder, chain, verbose, latestTs, olderTs, blocks, stgPerBlock,
                   poolLength, totalAllocPoint, tasks, queried,
                   tokenPrices, output, readFailed, calc>>

\* main.ts 204
ReadName(k) ==
    /\ pc = "fetchDetails"
    /\ poolTasks[k].st = "name"
    /\ poolTasks' = [poolTasks EXCEPT ![k].st = "token"]
    /\ UNCHANGED <<outOfOrder, pc, chain, verbose, latestTs, olderTs, blocks, stgPerBlock,
                   poolLength, totalAllocPoint, tasks, order, activePools,
                   queried, tokenPrices, output, readFailed, calc>>

\* main.ts 205
ReadToken(k) ==
    /\ pc = "fetchDetails"
    /\ poolTasks[k].st = "token"
    /\ \E t \in TokenSamples(chain) :
         poolTasks' = [poolTasks EXCEPT ![k].st = "decimals", ![k].token = t]
    /\ UNCHANGED <<outOfOrder, pc, chain, verbose, latestTs, olderTs, blocks, stgPerBlock,
                   poolLength, totalAllocPoint, tasks, order, activePools,
                   queried, tokenPrices, output, readFailed, calc>>

\* main.ts 206-211
ReadDecimals(k) ==
    /\ pc = "fetchDetails"
    /\ poolTasks[k].st = "decimals"
    /\ \E d \in DecimalsSamples :
         poolTasks' = [poolTasks EXCEPT ![k].st = "erc20name", ![k].decimals = d]
    /\ UNCHANGED <<outOfOrder, pc, chain, verbose, latestTs, olderTs, blocks, stgPerBlock,
                   poolLength, totalAllocPoint, tasks, order, activePools,
                   queried, tokenPrices, output, readFailed, calc>>

\* main.ts 212
ReadErc20Name(k) ==
    /\ pc = "fetchDetails"
    /\ poolTasks[k].st = "erc20name"
    /\ poolTasks' = [poolTasks EXCEPT ![k].st = "lpBalances"]
    /\ UNCHANGED <<outOfOrder, pc, chain, verbose, latestTs, olderTs, blocks, stgPerBlock,
                   poolLength, totalAllocPoint, tasks, order, activePools,
                   queried, tokenPrices, output, readFailed, calc>>

\* main.ts 213-236: the read, and the metrics derived before the next await
ReadLpBalances(k) ==
    /\ pc = "fetchDetails"
    /\ poolTasks[k].st = "lpBalances"
    /\ \E lpSupply \in LpSupplySamples :
         poolTasks' =
            [poolTasks EXCEPT
               ![k].st = "pendingStargate",
               ![k].lpSupply = lpSupply,
               ![k].computed = TRUE,
               ![k].m = PoolMetrics(stgPerBlock, totalAllocPoint, blocks,
                                    activePools[k].allocPoint,
                                    activePools[k].userStaked,
                                    lpSupply, poolTasks[k].decimals)]
    /\ UNCHANGED <<outOfOrder, pc, chain, verbose, latestTs, olderTs, blocks, stgPerBlock,
                   poolLength, totalAllocPoint, tasks, order, activePools,
                   queried, tokenPrices, output, readFailed, calc>>

\* main.ts 238-265
ReadPendingStargate(k) ==
    /\ pc = "fetchDetails"
    /\ poolTasks[k].st = "pendingStargate"
    /\ \E p \in PendingStgSamples :
         poolTasks' = [poolTasks EXCEPT ![k].st = "fulfilled", ![k].pendingStg = p]
    /\ UNCHANGED <<outOfOrder, pc, chain, verbose, latestTs, olderTs, blocks, stgPerBlock,
                   poolLength, totalAllocPoint, tasks, order, activePools,
                   queried, tokenPrices, output, readFailed, calc>>

\* a read of closure k rejects; Promise.all decides what the await does, and
\* an uncaught rejection ends the process with its closures
PoolTaskFails(k) ==
    /\ pc = "fetchDetails"
    /\ poolTasks[k].st \notin {"fulfilled", "rejected"}
    /\ LET settled == [poolTasks EXCEPT ![k].st = "rejected"]
       IN  IF PromiseAll(settled) = "rejected"
           THEN pc' = "failed" /\ poolTasks' = <<>>
           ELSE pc' = pc /\ poolTasks' = settled
    /\ readFailed' = TRUE
    /\ UNCHANGED <<outOfOrder, chain, verbose, latestTs, olderTs, blocks, stgPerBlock,
                   poolLength, totalAllocPoint, tasks, order, activePools,
                   queried, tokenPrices, output, calc>>

\* main.ts 202, 269-293: the await resumes; the feed is queried only when
\* a token is left after the stablecoins are removed
JoinDetails ==
    /\ pc = "fetchDetails"
    /\ PromiseAll(poolTasks) = "fulfilled"
    /\ LET tokens == [k \in 1..Len(poolTasks) |-> poolTasks[k].token]
           filteredTokens == FilteredTokens(chain, tokens)
       IN  IF Len(filteredTokens) = 0
           THEN /\ queried' = <<>>
                /\ tokenPrices' = WithStableCoins(chain, EmptyPrices)
                /\ pc' = "simplePrice"
           ELSE /\ queried' = filteredTokens
                /\ tokenPrices' = tokenPrices
                /\ pc' = "simpleTokenPrice"
    /\ UNCHANGED <<outOfOrder, chain, verbose, latestTs, olderTs, blocks, stgPerBlock,
                   poolLength, totalAllocPoint, tasks, order, activePools,
                   poolTasks, output, readFailed, calc>>

\* the addresses a feed response may hold an entry for
FeedKeys == {queried[i] : i \in 1..Len(queried)}
            \cup {StableCoins(chain)[i] : i \in 1..2}

\* main.ts 286-302
TokenPriceResponse ==
    /\ pc = "simpleTokenPrice"
    /\ \E S \in SUBSET FeedKeys :
         LET response == [a \in S |-> [usd |-> FeedPrice(a), ticker |-> "undefined"]]
         IN  tokenPrices' = WithStableCoins(chain, response)
    /\ pc' = "simplePrice"
    /\ UNCHANGED <<outOfOrder, chain, verbose, latestTs, olderTs, blocks, stgPerBlock,
                   poolLength, totalAllocPoint, tasks, order, activePools,
                   poolTasks, queried, output, readFailed, calc>>

\* main.ts 323-445: the second price query, then the price table and the
\* report loop, which run without a further await
SimplePriceResponse ==
    /\ pc = "simplePrice"
    /\ \E stgUsd \in IdPriceSamples, nativeUsd \in IdPriceSamples :
         /\ tokenPrices' = WithIdPrices(chain, tokenPrices, stgUsd, nativeUsd)
         /\ output' = [table |-> tokenPrices',
                       started |-> TRUE,
                       pools |-> ReportPools(tokenPrices', activePools,
                                             poolTasks, verbose)]
         /\ pc' = IF FirstThrow(tokenPrices', poolTasks) = 0
                  THEN "done" ELSE "failed"
    /\ UNCHANGED <<outOfOrder, chain, verbose, latestTs, olderTs, blocks, stgPerBlock,
                   poolLength, totalAllocPoint, tasks, order, activePools,
                   poolTasks, queried, readFailed, calc>>

Next ==
    \/ GetBlock
    \/ GetOlderBlock
    \/ Ping
    \/ ReadStargatePerBlock
    \/ ReadStargate
    \/ ReadPoolLength
    \/ ReadTotalAllocPoint
    \/ ReadFails
    \/ \E i \in 1..Len(tasks) : PoolInfo(i)
    \/ \E i \in 1..Len(tasks) : UserInfo(i)
    \/ \E i \in 1..Len(tasks) : TaskFails(i)
    \/ JoinPools
    \/ \E k \in 1..Len(poolTasks) : ReadName(k)
    \/ \E k \in 1..Len(poolTasks) : ReadToken(k)
    \/ \E k \in 1..Len(poolTasks) : ReadDecimals(k)
    \/ \E k \in 1..Len(poolTasks) : ReadErc20Name(k)
    \/ \E k \in 1..Len(poolTasks) : ReadLpBalances(k)
    \/ \E k \in 1..Len(poolTasks) : ReadPendingStargate(k)
    \/ \E k \in 1..Len(poolTasks) : PoolTaskFails(k)
    \/ JoinDetails
    \/ TokenPriceResponse
    \/ SimplePriceResponse

Spec == Init /\ [][Next]_vars

---------------------------------------------------------------------------
(* The block-time estimate alone, over a wider range of timestamps *)

AvgSamples == {0, 1, 2, 3, 11, 12, 13, 60, 3599, 3600, 3601, 7200, 86400}

RemainderSamples == {0, 50, 99}

BlockLatestSamples == {1700000000, 1762250000}

InitBlock ==
    /\ pc = "estimate"
    /\ chain = "mainnet"
    /\ verbose = FALSE
    /\ latestTs \in BlockLatestSamples
    /\ \E a \in AvgSamples, r \in RemainderSamples :
         olderTs = latestTs - (a * BlockSpan + r)
    /\ blocks = NoBlocks
    /\ stgPerBlock = 0
    /\ poolLength = 0
    /\ totalAllocPoint = 0
    /\ tasks = <<>>
    /\ order = <<>>
    /\ outOfOrder = FALSE
    /\ activePools = <<>>
    /\ poolTasks = <<>>
    /\ queried = <<>>
    /\ tokenPrices = EmptyPrices
    /\ output = NoOutput
    /\ readFailed = FALSE
    /\ calc = <<>>

\* main.ts 139-147 applied to the two timestamps
EstimateBlocks ==
    /\ pc = "estimate"
    /\ LET avgBlockTime == AvgBlockTime(latestTs, olderTs)
       IN  IF avgBlockTime = 0
           THEN pc' = "failed" /\ blocks' = blocks
           ELSE pc' = "estimated" /\ blocks' = BlockCounts(avgBlockTime)
    /\ UNCHANGED <<outOfOrder, chain, verbose, latestTs, olderTs, stgPerBlock, poolLength,
                   totalAllocPoint, tasks, order, activePools, poolTasks,
                   queried, tokenPrices, output, readFailed, calc>>

SpecBlock == InitBlock /\ [][EstimateBlocks]_vars

---------------------------------------------------------------------------
(* The per-pool metrics alone, over a wider range of pool states *)

MetricStgSamples == {5, 100}

MetricTotalSamples == {0, 600, 1000}

MetricAllocSamples == {100, 200, 300}

MetricAvgSamples == {12}

\* (lpSupply, decimals, userStaked) as read for an active pool
MetricStakeSamples ==
    {[lpSupply |-> 1000000, decimals |-> 1, userStaked |-> 100000],
     [lpSupply |-> 2500, decimals |-> 2, userStaked |-> 500],
     [lpSupply |-> 15, decimals |-> 1, userStaked |-> 5],
     [lpSupply |-> 5, decimals |-> 1, userStaked |-> 5],
     [lpSupply |-> 0, decimals |-> 1, userStaked |-> 5]}

InitMetrics ==
    /\ pc = "metrics"
    /\ chain = "mainnet"
    /\ verbose = FALSE
    /\ latestTs = 0
    /\ olderTs = 0
    /\ \E a \in MetricAvgSamples : blocks = BlockCounts(a)
    /\ stgPerBlock \in MetricStgSamples
    /\ poolLength = 0
    /\ totalAllocPoint \in MetricTotalSamples
    /\ tasks = <<>>
    /\ order = <<>>
    /\ outOfOrder = FALSE
    /\ activePools = <<>>
    /\ poolTasks = <<>>
    /\ queried = <<>>
    /\ tokenPrices = EmptyPrices
    /\ output = NoOutput
    /\ readFailed = FALSE
    /\ calc = <<>>

\* main.ts 213-236 applied to one more active pool
ComputeMetrics ==
    /\ pc = "metrics"
    /\ Len(calc) < MaxCalc
    /\ \E a \in MetricAllocSamples, s \in MetricStakeSamples :
         calc' = Append(calc,
                    [allocPoint |-> a, userStaked |-> s.userStaked,
                     lpSupply |-> s.lpSupply, decimals |-> s.decimals,
                     m |-> PoolMetrics(stgPerBlock, totalAllocPoint, blocks, a,
                                       s.userStaked, s.lpSupply, s.decimals)])
    /\ UNCHANGED <<outOfOrder, pc, chain, verbose, latestTs, olderTs, blocks, stgPerBlock,
                   poolLength, totalAllocPoint, tasks, order, activePools,
                   poolTasks, queried, tokenPrices, output, readFailed>>

SpecMetrics == InitMetrics /\ [][ComputeMetrics]_vars

---------------------------------------------------------------------------
(* Properties *)

\* a + b for finite a and b
Add(x, y) == Rat(x.n * y.d + y.n * x.d, x.d * y.d)

RECURSIVE SumAlloc(_)
SumAlloc(cs) == IF cs = <<>> THEN 0 ELSE cs[1].allocPoint + SumAlloc(Tail(cs))

RECURSIVE SumReward(_)
SumReward(cs) ==
    IF cs = <<>> THEN Num(0) ELSE Add(cs[1].m.rewardPerBlock, SumReward(Tail(cs)))

USDC == CONTRACT_ADDRESSES_MAP[chain].USDC
USDT == CONTRACT_ADDRESSES_MAP[chain].USDT

\* the first Promise.all has been awaited and its results are still held
PoolsJoined ==
    /\ pc \in {"fetchDetails", "simpleTokenPrice", "simplePrice", "done", "failed"}
    /\ Len(tasks) = poolLength
    /\ \A i \in 1..Len(tasks) : tasks[i].st = "fulfilled"

\* C1: once the per-pool reads have all completed, in whatever order, the
\* active-pool list holds exactly the pools read with allocPoint > 0 and
\* userStaked > 0, with the values read for them, in increasing pid order.
ActivePoolsAreStableFilter ==
    PoolsJoined =>
        /\ \A k \in 1..Len(activePools) :
             LET i == activePools[k].pid + 1
             IN  /\ i \in 1..Len(tasks)
                 /\ tasks[i].allocPoint > 0
                 /\ tasks[i].userStaked > 0
                 /\ activePools[k].allocPoint = tasks[i].allocPoint
                 /\ activePools[k].userStaked = tasks[i].userStaked
        /\ \A i \in 1..Len(tasks) :
             (tasks[i].allocPoint > 0 /\ tasks[i].userStaked > 0)
                => \E k \in 1..Len(activePools) : activePools[k].pid = i - 1
        /\ \A k1, k2 \in 1..Len(activePools) :
             k1 < k2 => activePools[k1].pid < activePools[k2].pid

\* two pools were read, the closure of pid 1 completed before that of pid 0,
\* and both pools are active
OutOfOrderPoolsSelected ==
    /\ pc = "fetchDetails"
    /\ outOfOrder
    /\ Len(activePools) = 2

\* C2: rewardPerBlock is the STG-per-block in decimal units times
\* allocPoint / totalAllocPoint; each window reward is rewardPerBlock times
\* the window's block count; when the allocation points of the pools sum to
\* totalAllocPoint the rewards per block sum to the STG-per-block; 10 STG and
\* 100 of 1000 points at 12 s blocks give 1, 7200 and 50400.
RewardsAreProportional ==
    pc = "metrics" =>
        /\ \A k \in 1..Len(calc) :
             LET c == calc[k]
             IN  /\ c.m.rewardPerBlock =
                      Div(Mul(FormatStg(stgPerBlock), Num(c.allocPoint)),
                          Num(totalAllocPoint))
                 /\ Div(c.m.rewardPerDay, Num(blocks.day)) = c.m.rewardPerBlock
                 /\ Div(c.m.rewardPerWeek, Num(blocks.week)) = c.m.rewardPerBlock
                 /\ Div(c.m.rewardPerMonth, Num(blocks.month)) = c.m.rewardPerBlock
                 /\ Div(c.m.rewardPerYear, Num(blocks.year)) = c.m.rewardPerBlock
                 /\ (stgPerBlock = 100 /\ c.allocPoint = 100
                       /\ totalAllocPoint = 1000 /\ blocks.avg = 12)
                    => /\ c.m.rewardPerBlock = Num(1)
                       /\ c.m.rewardPerDay = Num(7200)
                       /\ c.m.rewardPerWeek = Num(50400)
        /\ (totalAllocPoint > 0 /\ SumAlloc(calc) = totalAllocPoint)
              => SumReward(calc) = FormatStg(stgPerBlock)

\* allocations 100, 200, 300 of 600: the rewards are 1/6, 2/6 and 3/6 of the
\* STG-per-block
SixthsOfTheReward ==
    /\ pc = "metrics"
    /\ totalAllocPoint = 600
    /\ Len(calc) = 3
    /\ \A k \in 1..3 :
         /\ calc[k].allocPoint = k * 100
         /\ calc[k].m.rewardPerBlock = Mul(FormatStg(stgPerBlock), Rat(k, 6))

\* the window relations of the block counts, and the division that gives
\* blocksPerHour, stated without the operators of the model
BlockCountsCascade ==
    /\ blocks.avg * BlockSpan <= latestTs - olderTs
    /\ latestTs - olderTs < (blocks.avg + 1) * BlockSpan
    /\ blocks.avg >= 1
    /\ blocks.hour * blocks.avg <= 3600
    /\ 3600 < (blocks.hour + 1) * blocks.avg
    /\ blocks.day = blocks.hour * 24
    /\ blocks.week = blocks.day * 7
    /\ blocks.month = blocks.week * 4
    /\ blocks.year = blocks.month * 12
    /\ blocks.avg = 12 =>
         /\ blocks.hour = 300
         /\ blocks.day = 7200
         /\ blocks.week = 50400
         /\ blocks.month = 201600
         /\ blocks.year = 2419200

\* C3 as claimed: whenever the average block time is at least 1, the block
\* counts follow the cascade and every one of them is a positive integer.
BlockCountsArePositive ==
    pc = "estimated" =>
        /\ BlockCountsCascade
        /\ \A f \in {"hour", "day", "week", "month", "year"} : blocks[f] > 0

\* C3 as amended: whenever the average block time is at least 1, the block
\* counts follow the cascade and are non-negative integers; they are
\* positive exactly when the average block time is at most 3600 s, and all
\* zero above that.
BlockCountsAreCascaded ==
    pc = "estimated" =>
        /\ BlockCountsCascade
        /\ \A f \in {"hour", "day", "week", "month", "year"} :
             /\ blocks[f] >= 0
             /\ blocks[f] > 0 <=> blocks.avg <= 3600

\* timestamps 1200 to 1299 s apart: 12 s blocks, 2419200 blocks a year
TwelveSecondBlocks ==
    /\ pc = "estimated"
    /\ blocks.avg = 12
    /\ blocks.year = 2419200

\* C4: weeklyAPY is rewardPerWeek x 100 over the pool's staked amount in
\* decimal token units (lpSupply / 10^decimals), and the daily, monthly and
\* yearly figures are the weekly one over 7, times 4 and times 52.  Stated
\* for the pools whose divisors are not zero, which C9 and C10 are about.
ApyOverDecimalStake ==
    pc = "metrics" =>
        \A k \in 1..Len(calc) :
            LET c == calc[k]
                stakedDecimal == FormatUnits(c.lpSupply, c.decimals)
            IN  (totalAllocPoint > 0 /\ c.m.stakedTokens # Num(0)) =>
                /\ c.m.weeklyAPY =
                     Div(Mul(c.m.rewardPerWeek, Num(100)), stakedDecimal)
                /\ Mul(c.m.dailyAPY, Num(7)) = c.m.weeklyAPY
                /\ c.m.monthlyAPY = Mul(c.m.weeklyAPY, Num(4))
                /\ c.m.yearlyAPY = Mul(c.m.weeklyAPY, Num(52))

\* C5: userStakedPct is the user's stake x 100 over the pool's stake, both
\* in decimal token units, the pool's stake being the quantity the APY is
\* divided by; each user reward is the pool reward x userStakedPct / 100.
\* Stated for the pools whose divisors are not zero, which C9 and C10 are
\* about.
UserShareOverApyStake ==
    pc = "metrics" =>
        \A k \in 1..Len(calc) :
            LET c == calc[k]
                userDecimal == FormatUnits(c.userStaked, c.decimals)
            IN  (totalAllocPoint > 0 /\ c.m.stakedTokens # Num(0)) =>
                /\ c.m.userStakedPct =
                     Div(Mul(userDecimal, Num(100)), c.m.stakedTokens)
                /\ Mul(c.m.userDailyReward, Num(100)) =
                     Mul(c.m.rewardPerDay, c.m.userStakedPct)
                /\ Mul(c.m.userWeeklyReward, Num(100)) =
                     Mul(c.m.rewardPerWeek, c.m.userStakedPct)
                /\ Mul(c.m.userMonthlyReward, Num(100)) =
                     Mul(c.m.rewardPerMonth, c.m.userStakedPct)
                /\ Mul(c.m.userYearlyReward, Num(100)) =
                     Mul(c.m.rewardPerYear, c.m.userStakedPct)

\* C6: neither stablecoin of the chain is ever sent to the price feed, and
\* the price map that is reported holds usd = 1 for both of them, whatever
\* the feed returned and whether or not it was queried.
StableCoinsArePinned ==
    /\ \A i \in 1..Len(queried) : queried[i] \notin {USDC, USDT}
    /\ pc \in {"simplePrice", "done"} \/ output.started =>
         /\ {USDC, USDT} \subseteq DOMAIN tokenPrices
         /\ tokenPrices[USDC].usd = Rat(1, 1)
         /\ tokenPrices[USDT].usd = Rat(1, 1)
    /\ output.started =>
         /\ {USDC, USDT} \subseteq DOMAIN output.table
         /\ output.table[USDC].usd = Rat(1, 1)
         /\ output.table[USDT].usd = Rat(1, 1)

\* a report was printed for a stablecoin pool and a pool whose token was
\* sent to the feed
StablePoolReportedAfterQuery ==
    /\ output.started
    /\ Len(queried) > 0
    /\ \E k \in 1..Len(poolTasks) : poolTasks[k].token \in {USDC, USDT}

\* C7: when the feed has no entry for an active pool's token the run still
\* completes: every active pool is reported with its token-denominated
\* fields, that pool without its USD fields and every other pool with them.
MissingPriceDegradesOnePool ==
    output.started =>
        /\ pc = "done"
        /\ Len(output.pools) = Len(activePools)
        /\ \A k \in 1..Len(output.pools) :
             /\ TokenFields(verbose) \subseteq output.pools[k].fields
             /\ output.pools[k].token \in DOMAIN output.table
                  => UsdFields(verbose) \subseteq output.pools[k].fields
             /\ output.pools[k].token \notin DOMAIN output.table
                  => UsdFields(verbose) \cap output.pools[k].fields = {}

\* C8: a run in which a chain read or a price-feed call failed has ended in
\* failure with no price table and no pool record printed; a run that has
\* printed anything of the report has completed every read successfully.
NoReportAfterFailedRead ==
    /\ readFailed =>
         /\ pc = "failed"
         /\ ~output.started
         /\ output.pools = <<>>
         /\ DOMAIN output.table = {}
    /\ output.started =>
         /\ ~readFailed
         /\ Len(tasks) = poolLength
         /\ \A i \in 1..Len(tasks) : tasks[i].st = "fulfilled"
         /\ Len(poolTasks) = Len(activePools)
         /\ \A k \in 1..Len(poolTasks) : poolTasks[k].st = "fulfilled"
         /\ {StargateToken, zeroAddress} \subseteq DOMAIN output.table

\* a read failed while the closures of the active pools were in flight
FailedDuringPoolReads ==
    /\ readFailed
    /\ pc = "failed"
    /\ Len(activePools) > 0
    /\ poolTasks = <<>>

\* C9: a pool whose stakedTokens is 0 is reported without an infinite or NaN
\* APY figure.
ZeroStakeYieldUnavailable ==
    \A k \in 1..Len(output.pools) :
        LET r == output.pools[k]
        IN  r.m.stakedTokens = Num(0) =>
               \A f \in {"weeklyAPY", "monthlyAPY", "yearlyAPY"} :
                   f \in r.fields => IsFiniteNum(r.m[f])

\* C10: with totalAllocPoint read as 0 no reward of an active pool is
\* computed, and none is reported.
ZeroTotalAllocAborts ==
    totalAllocPoint = 0 =>
        /\ \A k \in 1..Len(poolTasks) : ~poolTasks[k].computed
        /\ output.pools = <<>>
=============================================================================
